---- MODULE Spec2Model ----
(***************************************************************************)
(* A model of pdf_mcp_server.py: the three tools read_pdf_text,            *)
(* get_pdf_info and list_pdfs_in_directory, run one call at a time against *)
(* a small POSIX filesystem on which a concurrent actor may unlink files.  *)
(*                                                                         *)
(* Paths and file names are sequences of one-character strings, so that    *)
(* isabs, lower, endswith, join and relpath are computed as the code       *)
(* computes them.  Page texts and messages are strings.                    *)
(***************************************************************************)
EXTENDS Integers, Sequences, FiniteSets, TLC

\* ------------------------------------------------------------- bounds
\* longest page_numbers list a caller passes
MaxReq == 2
\* how many files the concurrent actor unlinks in one behaviour
MaxUnlinks == 1

\* ------------------------------------------------------------- strings
Upper == <<"A","B","C","D","E","F","G","H","I","J","K","L","M",
           "N","O","P","Q","R","S","T","U","V","W","X","Y","Z">>
Lower == <<"a","b","c","d","e","f","g","h","i","j","k","l","m",
           "n","o","p","q","r","s","t","u","v","w","x","y","z">>

\* str.lower() on one character
LowerChar(c) ==
    IF \E i \in 1..Len(Upper) : Upper[i] = c
    THEN Lower[CHOOSE i \in 1..Len(Upper) : Upper[i] = c]
    ELSE c

\* str.lower()
lower(s) == [i \in 1..Len(s) |-> LowerChar(s[i])]

\* str.endswith(suffix)
endswith(s, suffix) ==
    /\ Len(s) >= Len(suffix)
    /\ SubSeq(s, Len(s) - Len(suffix) + 1, Len(s)) = suffix

\* str.startswith(prefix)
startswith(s, prefix) ==
    /\ Len(s) >= Len(prefix)
    /\ SubSeq(s, 1, Len(prefix)) = prefix

DotPdf == <<".", "p", "d", "f">>

\* file_path.lower().endswith('.pdf')  /  file.lower().endswith('.pdf')
IsPdfName(name) == endswith(lower(name), DotPdf)

\* os.path.isabs (posixpath): the path starts with "/"
isabs(path) == startswith(path, <<"/">>)

\* os.path.join(root, name) for a relative name
join(root, name) ==
    IF endswith(root, <<"/">>) THEN root \o name ELSE root \o <<"/">> \o name

\* the components of a path: the pieces between slashes, empty pieces dropped
RECURSIVE SplitFrom(_, _, _)
SplitFrom(path, i, cur) ==
    IF i > Len(path) THEN (IF cur = <<>> THEN <<>> ELSE << cur >>)
    ELSE IF path[i] = "/"
    THEN (IF cur = <<>> THEN <<>> ELSE << cur >>) \o SplitFrom(path, i + 1, <<>>)
    ELSE SplitFrom(path, i + 1, Append(cur, path[i]))

Components(path) == SplitFrom(path, 1, <<>>)

\* len(os.path.commonprefix([start_list, path_list]))
RECURSIVE CommonLen(_, _)
CommonLen(a, b) ==
    IF a = <<>> \/ b = <<>> \/ Head(a) # Head(b) THEN 0
    ELSE 1 + CommonLen(Tail(a), Tail(b))

\* "/".join(parts)
RECURSIVE SlashJoin(_)
SlashJoin(parts) ==
    IF parts = <<>> THEN <<>>
    ELSE IF Len(parts) = 1 THEN parts[1]
    ELSE parts[1] \o <<"/">> \o SlashJoin(Tail(parts))

\* The working directory of the server process.
Cwd == <<"/", "d">>

\* the loop of os.path.normpath over the components: "." is dropped, ".."
\* takes the component before it away, and is kept where there is none to
\* take in a relative path
RECURSIVE NormComps(_, _, _)
NormComps(comps, new_comps, initial_slashes) ==
    IF comps = <<>> THEN new_comps
    ELSE LET comp == Head(comps)
             kept == IF comp = <<".">> THEN new_comps
                     ELSE IF \/ comp # <<".", ".">>
                             \/ (initial_slashes = 0 /\ new_comps = <<>>)
                             \/ (new_comps # <<>>
                                    /\ new_comps[Len(new_comps)] = <<".", ".">>)
                     THEN Append(new_comps, comp)
                     ELSE IF new_comps # <<>>
                     THEN SubSeq(new_comps, 1, Len(new_comps) - 1)
                     ELSE new_comps
         IN NormComps(Tail(comps), kept, initial_slashes)

\* the leading slashes os.path.normpath keeps: exactly two are kept as two
InitialSlashes(path) ==
    IF ~startswith(path, <<"/">>) THEN 0
    ELSE IF startswith(path, <<"/", "/">>) /\ ~startswith(path, <<"/", "/", "/">>) THEN 2
    ELSE 1

\* path or "."
OrDot(path) == IF path = <<>> THEN <<".">> ELSE path

Normalised(path, initial_slashes) ==
    OrDot([k \in 1..initial_slashes |-> "/"]
              \o SlashJoin(NormComps(Components(path), <<>>, initial_slashes)))

\* os.path.normpath (posixpath)
normpath(path) == IF path = <<>> THEN <<".">> ELSE Normalised(path, InitialSlashes(path))

\* os.path.join(os.getcwd(), path) for a relative path
FromCwd(path) == IF isabs(path) THEN path ELSE join(Cwd, path)

\* os.path.abspath: a relative path is joined to the working directory, and
\* the result is normalised
abspath(path) == normpath(FromCwd(path))

\* as many ".." as start_list has components after the first i, then the
\* components of path_list after the first i
RelList(start_list, path_list, i) ==
    [k \in 1..(Len(start_list) - i) |-> <<".", ".">>]
        \o SubSeq(path_list, i + 1, Len(path_list))

RelFrom(start_list, path_list) ==
    OrDot(SlashJoin(RelList(start_list, path_list, CommonLen(start_list, path_list))))

\* os.path.relpath(full_path, start): both paths are made absolute and
\* normalised, and the common prefix of their components is left out
relpath(full_path, start) ==
    RelFrom(Components(abspath(start)), Components(abspath(full_path)))

\* ------------------------------------------------------------- filesystem
\* PDF objects: a text string, or the null object.
PdfStr(s) == [t |-> "str", v |-> s]
PdfNull == [t |-> "null", v |-> "NullObject"]

\* str(x) on a PDF object / on the default ""
Str(x) == [t |-> "str", v |-> x.v]

\* A page: extract_text() gives text[1], or None when text = <<>>;
\* extract_tables() gives tables.
Page(text, tables) == [text |-> text, tables |-> tables]

DocA == [pdf |-> TRUE,
         pages |-> << Page(<<"Alpha">>, << << <<"h">>, <<"1">> >> >>),
                      Page(<<>>, <<>>) >>,
         hasmeta |-> TRUE,
         meta |-> [k \in {"/Title", "/Author", "/CreationDate"} |->
                     CASE k = "/Title" -> PdfStr("Report")
                       [] k = "/Author" -> PdfNull
                       [] OTHER -> PdfStr("D:2020")]]

DocB == [pdf |-> TRUE,
         pages |-> << Page(<<"">>, <<>>) >>,
         hasmeta |-> FALSE,
         meta |-> [k \in {} |-> PdfNull]]

NoDoc == [pdf |-> FALSE, pages |-> <<>>, hasmeta |-> FALSE,
          meta |-> [k \in {} |-> PdfNull]]

\* One directory entry.  kind: "file", "dir" or "link" (a dangling symlink).
\* r: the file can be opened / the directory enumerated.  x: the directory
\* can be searched (its entries can be stat-ed).
Ent(dir, name, kind, r, x, size, doc) ==
    [dir |-> dir, name |-> name, kind |-> kind, r |-> r, x |-> x,
     size |-> size, doc |-> doc]

DirD == <<"/", "d">>
DirS == <<"/", "d", "/", "s">>
DirQ == <<"/", "d", "/", "q">>

Tree == <<
    Ent(<<"/">>, <<"d">>, "dir", TRUE, TRUE, 0, NoDoc),
    Ent(DirD, <<"a", ".", "p", "d", "f">>, "file", TRUE, TRUE, 300, DocA),
    Ent(DirD, <<"b", ".", "P", "D", "F">>, "file", TRUE, TRUE, 100, DocB),
    Ent(DirD, <<"c", ".", "t", "x", "t">>, "file", TRUE, TRUE, 7, NoDoc),
    Ent(DirD, <<"p", ".", "p", "d", "f">>, "file", FALSE, TRUE, 50, DocB),
    Ent(DirD, <<"l", ".", "p", "d", "f">>, "link", TRUE, TRUE, 0, NoDoc),
    Ent(DirD, <<"x", ".", "p", "d", "f">>, "dir", TRUE, TRUE, 0, NoDoc),
    Ent(DirD, <<"s">>, "dir", TRUE, FALSE, 0, NoDoc),
    Ent(DirS, <<"e", ".", "p", "d", "f">>, "file", TRUE, TRUE, 9, DocB),
    Ent(DirD, <<"q">>, "dir", FALSE, FALSE, 0, NoDoc),
    Ent(DirQ, <<"g", ".", "p", "d", "f">>, "file", TRUE, TRUE, 9, DocB) >>

FullPath(e) == join(e.dir, e.name)

TreePaths == { FullPath(Tree[i]) : i \in 1..Len(Tree) }

\* the files the concurrent actor may unlink: the readable regular files of /d
TreeFiles ==
    { FullPath(Tree[i]) :
        i \in { j \in 1..Len(Tree) :
                    Tree[j].kind = "file" /\ Tree[j].r /\ Tree[j].dir = DirD } }

\* the root directory
Root == Ent(<<>>, <<"/">>, "dir", TRUE, TRUE, 0, NoDoc)

\* the entry at a path of the tree
Node(p) ==
    IF p = <<"/">> THEN Root
    ELSE Tree[CHOOSE i \in 1..Len(Tree) : FullPath(Tree[i]) = p]

\* the file the kernel arrives at when the walk along the path succeeds:
\* relative paths start at the working directory, any number of slashes is
\* one, "." stays and ".." goes up (no directory of the tree is a symbolic
\* link)
Resolve(path) == <<"/">> \o SlashJoin(NormComps(Components(FromCwd(path)), <<>>, 1))

Present(p, del) == p \in TreePaths /\ p \notin del

\* the first step that fails gives the outcome
FirstFailure(outs) ==
    IF \A i \in 1..Len(outs) : outs[i] = "ok" THEN "ok"
    ELSE outs[CHOOSE i \in 1..Len(outs) :
                /\ outs[i] # "ok"
                /\ \A m \in 1..(i - 1) : outs[m] = "ok"]

\* the path of the first k components
PrefixPath(comps, k) == <<"/">> \o SlashJoin(SubSeq(comps, 1, k))

\* the lookup of one component, q being the path so far: it has to be there,
\* and unless it is the last it has to be a directory that can be searched
NodeOutcome(q, last, del) ==
    IF ~Present(q, del) THEN "ENOENT"
    ELSE IF Node(q).kind = "link" THEN "ENOENT"
    ELSE IF last THEN "ok"
    ELSE IF Node(q).kind # "dir" THEN "ENOTDIR"
    ELSE IF ~Node(q).x THEN "EACCES"
    ELSE "ok"

AtOutcomes(comps, del) ==
    [k \in 1..Len(comps) |-> NodeOutcome(PrefixPath(comps, k), k = Len(comps), del)]

\* the outcome of stat on a path without "." and "..": "ok", or the errno
\* class of the first component whose lookup fails
StatAt(p, del) == FirstFailure(AtOutcomes(Components(p), del))

\* one step of the kernel's walk along a path, st being the outcome of looking
\* at p: where a further component is looked up in p ("search") it has to be
\* a directory that can be searched, and where a slash follows it ("dir") a
\* directory
CheckDir(st, p, need) ==
    IF st # "ok" THEN st
    ELSE IF need = "any" \/ p = <<"/">> THEN "ok"
    ELSE IF Node(p).kind # "dir" THEN "ENOTDIR"
    ELSE IF need = "search" /\ ~Node(p).x THEN "EACCES"
    ELSE "ok"

CheckAt(p, need, del) == CheckDir(StatAt(p, del), p, need)

\* the positions of the "." and ".." components
DotSteps(comps) ==
    LET IsDot(k) == comps[k] \in { <<".">>, <<".", ".">> }
    IN SelectSeq([k \in 1..Len(comps) |-> k], IsDot)

\* the directory the components before the k-th lead to
ReachedBefore(comps, k) ==
    <<"/">> \o SlashJoin(NormComps(SubSeq(comps, 1, k - 1), <<>>, 1))

\* the steps of the walk: each "." and ".." is looked up in the directory the
\* components before it lead to, then the file the path leads to is looked at
WalkSteps(comps, dots, p, need) ==
    [i \in 1..Len(dots) |-> [p |-> ReachedBefore(comps, dots[i]), need |-> "search"]]
        \o << [p |-> p, need |-> need] >>

StatSteps(full, comps, p) ==
    WalkSteps(comps, DotSteps(comps), p,
              IF endswith(full, <<"/">>) THEN "dir" ELSE "any")

StepOutcomes(steps, del) ==
    [i \in 1..Len(steps) |-> CheckAt(steps[i].p, steps[i].need, del)]

\* the outcome of stat(path): "ok", or the errno class; a/.. fails where a is
\* missing, is no directory or cannot be searched
StatOutcome(path, del) ==
    FirstFailure(StepOutcomes(StatSteps(FromCwd(path), Components(FromCwd(path)),
                                        Resolve(path)), del))

\* os.path.exists: stat succeeded (every OSError gives False)
exists(path, del) == StatOutcome(path, del) = "ok"

\* os.path.isdir
isdir(path, del) ==
    /\ StatOutcome(path, del) = "ok"
    /\ Node(Resolve(path)).kind = "dir"

\* the outcome of open(path, 'rb'): the permission check comes before the
\* refusal to open a directory
OpenOutcome(path, del) ==
    LET s == StatOutcome(path, del) IN
    IF s # "ok" THEN s
    ELSE IF ~Node(Resolve(path)).r THEN "EACCES"
    ELSE IF isdir(path, del) THEN "EISDIR"
    ELSE "ok"

\* os.path.getsize / os.path.getmtime on a path whose stat succeeds
getsize(path) == Node(Resolve(path)).size
getmtime(path) == Node(Resolve(path)).size + 1000

\* ------------------------------------------------------------- exceptions
\* the classes an exception is an instance of
ExcBases(type) ==
    CASE type = "PermissionError" ->
            {"PermissionError", "OSError", "Exception", "BaseException"}
      [] type = "FileNotFoundError" ->
            {"FileNotFoundError", "OSError", "Exception", "BaseException"}
      [] type = "IsADirectoryError" ->
            {"IsADirectoryError", "OSError", "Exception", "BaseException"}
      [] type = "NotADirectoryError" ->
            {"NotADirectoryError", "OSError", "Exception", "BaseException"}
      [] type \in {"KeyboardInterrupt", "SystemExit", "GeneratorExit"} ->
            {type, "BaseException"}
      [] OTHER -> {type, "Exception", "BaseException"}

IsInstance(e, class) == class \in ExcBases(e.type)

Exc(type, msg, path, origin) ==
    [type |-> type, msg |-> msg, path |-> path, origin |-> origin]

\* the OSError a failed system call raises
OSErrorOf(errno, path, origin) ==
    CASE errno = "EACCES" ->
            Exc("PermissionError", "[Errno 13] Permission denied", path, origin)
      [] errno = "ENOENT" ->
            Exc("FileNotFoundError", "[Errno 2] No such file or directory", path, origin)
      [] errno = "ENOTDIR" ->
            Exc("NotADirectoryError", "[Errno 20] Not a directory", path, origin)
      [] OTHER ->
            Exc("IsADirectoryError", "[Errno 21] Is a directory", path, origin)

\* what may be raised at any call into the PDF library: its own errors, a
\* permission error, or an interrupt delivered to the process
LibFaults == {"PermissionError", "PDFSyntaxError", "KeyboardInterrupt"}
LibExc(type, origin) == Exc(type, "library failure", <<>>, origin)

NoExc == Exc("none", "", <<>>, "none")

\* str(e)
StrE(e) == [msg |-> e.msg, path |-> e.path]

\* ------------------------------------------------------------- envelopes
Fail(error) == [success |-> FALSE, error |-> error]

\* what leaves a call: the returned envelope, or the exception that escaped
Returned(value) == [returned |-> TRUE, value |-> value]
Escaped(e) == [returned |-> FALSE, value |-> [exception |-> e.type]]

Pending == [pending |-> TRUE]

ReadHandlerNarrow(e, fp) ==
    IF IsInstance(e, "PermissionError")
    THEN Returned(Fail([fmt |-> "Permission denied accessing file: {file_path}. Error: {e}",
                        file_path |-> fp, e |-> StrE(e)]))
    ELSE Escaped(e)

\* read_pdf_text: the except clauses
ReadHandler(e, fp) ==
    IF IsInstance(e, "PermissionError")
    THEN Returned(Fail([fmt |-> "Permission denied accessing file: {file_path}. Error: {e}",
                        file_path |-> fp, e |-> StrE(e)]))
    ELSE IF IsInstance(e, "Exception")
    THEN Returned(Fail([fmt |-> "Error reading PDF: {e}", e |-> StrE(e)]))
    ELSE Escaped(e)

InfoHandlerNarrow(e, fp) ==
    IF IsInstance(e, "PermissionError")
    THEN Returned(Fail([fmt |-> "Permission denied accessing file: {file_path}. Error: {e}",
                        file_path |-> fp, e |-> StrE(e)]))
    ELSE Escaped(e)

\* get_pdf_info: the except clauses
InfoHandler(e, fp) ==
    IF IsInstance(e, "PermissionError")
    THEN Returned(Fail([fmt |-> "Permission denied accessing file: {file_path}. Error: {e}",
                        file_path |-> fp, e |-> StrE(e)]))
    ELSE IF IsInstance(e, "Exception")
    THEN Returned(Fail([fmt |-> "Error getting PDF info: {e}", e |-> StrE(e)]))
    ELSE Escaped(e)

\* list_pdfs_in_directory: the except clauses
ListHandler(e, dp) ==
    IF IsInstance(e, "PermissionError")
    THEN Returned(Fail([fmt |-> "Permission denied accessing directory: {directory_path}. Error: {e}",
                        directory_path |-> dp, e |-> StrE(e)]))
    ELSE IF IsInstance(e, "Exception")
    THEN Returned(Fail([fmt |-> "Error listing PDFs: {e}", e |-> StrE(e)]))
    ELSE Escaped(e)

\* ------------------------------------------------------------- validation
ValidateReadExistsFirst(fp, del) ==
    IF ~exists(fp, del) THEN "NotFound"
    ELSE IF ~isabs(fp) THEN "NotAbsolutePath"
    ELSE IF ~IsPdfName(fp) THEN "NotAPdf"
    ELSE "ok"

\* read_pdf_text: the three checks, in order
ValidateRead(fp, del) ==
    IF ~isabs(fp) THEN "NotAbsolutePath"
    ELSE IF ~exists(fp, del) THEN "NotFound"
    ELSE IF ~IsPdfName(fp) THEN "NotAPdf"
    ELSE "ok"

\* get_pdf_info: the two checks, in order
ValidateInfo(fp, del) ==
    IF ~isabs(fp) THEN "NotAbsolutePath"
    ELSE IF ~exists(fp, del) THEN "NotFound"
    ELSE "ok"

\* list_pdfs_in_directory: the first two checks; one look at the filesystem
ValidateListExists(dp, del) ==
    IF ~isabs(dp) THEN "NotAbsolutePath"
    ELSE IF ~exists(dp, del) THEN "NotFound"
    ELSE "ok"

\* list_pdfs_in_directory: the third check; a second look at the filesystem
ValidateListIsDir(dp, del) ==
    IF ~isdir(dp, del) THEN "NotADirectory" ELSE "ok"

\* the envelope a failed check of read_pdf_text / get_pdf_info returns
FileValidationError(v, fp) ==
    CASE v = "NotAbsolutePath" ->
            Fail([fmt |-> "File path must be absolute path, got: {file_path}", file_path |-> fp])
      [] v = "NotFound" ->
            Fail([fmt |-> "File not found: {file_path}", file_path |-> fp])
      [] OTHER ->
            Fail([fmt |-> "File must be a PDF"])

\* the envelope a failed check of list_pdfs_in_directory returns
DirValidationError(v, dp) ==
    CASE v = "NotAbsolutePath" ->
            Fail([fmt |-> "Directory path must be absolute path, got: {directory_path}",
                  directory_path |-> dp])
      [] v = "NotFound" ->
            Fail([fmt |-> "Directory not found: {directory_path}", directory_path |-> dp])
      [] OTHER ->
            Fail([fmt |-> "Path is not a directory: {directory_path}", directory_path |-> dp])

\* ------------------------------------------------------------- read_pdf_text
\* the page numbers a caller may pass: below, inside and above the range
PageNums == -1 .. (Len(DocA.pages) + 1)

RECURSIVE SeqsUpTo(_, _)
SeqsUpTo(S, n) ==
    IF n = 0 THEN { <<>> }
    ELSE LET shorter == SeqsUpTo(S, n - 1)
         IN shorter \cup { Append(q, x) : q \in shorter, x \in S }

\* page_numbers: None, or a list
NoPageNumbers == [given |-> FALSE, list |-> <<>>]
PageNumbersInputs ==
    { NoPageNumbers } \cup { [given |-> TRUE, list |-> q] : q \in SeqsUpTo(PageNums, MaxReq) }

RECURSIVE SelectUpperOnly(_, _)
SelectUpperOnly(list, n) ==
    IF list = <<>> THEN <<>>
    ELSE (IF Head(list) <= n THEN << Head(list) - 1 >> ELSE <<>>)
            \o SelectUpperOnly(Tail(list), n)

\* [p - 1 for p in page_numbers if 0 < p <= len(pdf.pages)]
RECURSIVE SelectPages(_, _)
SelectPages(list, n) ==
    IF list = <<>> THEN <<>>
    ELSE (IF 0 < Head(list) /\ Head(list) <= n THEN << Head(list) - 1 >> ELSE <<>>)
            \o SelectPages(Tail(list), n)

\* range(len(pdf.pages)) when page_numbers is None, else the filtered list
PagesToProcess(pn, n) ==
    IF ~pn.given THEN [i \in 1..n |-> i - 1] ELSE SelectPages(pn.list, n)

\* pdf.pages[page_idx]: a Python list index (negative counts from the end)
InRange(pages, idx) == -Len(pages) <= idx /\ idx < Len(pages)
PyIndex(pages, idx) == IF idx >= 0 THEN pages[idx + 1] ELSE pages[Len(pages) + idx + 1]

\* page.extract_text() or ""
TextOrEmpty(text) == IF text = <<>> THEN "" ELSE text[1]

RECURSIVE JoinSingleNewline(_)
JoinSingleNewline(parts) ==
    IF parts = <<>> THEN ""
    ELSE IF Len(parts) = 1 THEN parts[1]
    ELSE parts[1] \o "\n" \o JoinSingleNewline(Tail(parts))

\* "\n\n".join(full_text_parts)
RECURSIVE Join(_)
Join(parts) ==
    IF parts = <<>> THEN ""
    ELSE IF Len(parts) = 1 THEN parts[1]
    ELSE parts[1] \o "\n\n" \o Join(Tail(parts))

\* the extract_tables block without its try/except
TablesStepNoCatch(page_info, page, fault) ==
    IF fault = "none"
    THEN [raised |-> FALSE, e |-> NoExc,
          page_info |-> [page_number |-> page_info.page_number, text |-> page_info.text,
                         tables |-> page.tables]]
    ELSE [raised |-> TRUE, e |-> LibExc(fault, "extract_tables"), page_info |-> page_info]

\* the extract_tables block: page.extract_tables() raises `fault`, or returns
\* the page's tables; an Exception is caught and recorded on the page
TablesStep(page_info, page, fault) ==
    IF fault = "none"
    THEN [raised |-> FALSE, e |-> NoExc,
          page_info |-> [page_number |-> page_info.page_number, text |-> page_info.text,
                         tables |-> page.tables]]
    ELSE IF ~IsInstance(LibExc(fault, "extract_tables"), "Exception")
    THEN [raised |-> TRUE, e |-> LibExc(fault, "extract_tables"), page_info |-> page_info]
    ELSE [raised |-> FALSE, e |-> NoExc,
          page_info |-> [page_number |-> page_info.page_number, text |-> page_info.text,
                         tables |-> <<>>,
                         table_extraction_error |-> StrE(LibExc(fault, "extract_tables"))]]

WithExitLeaks(handles, h) == handles

\* leaving a with block: the handle is closed
WithExit(handles, h) == handles \ {h}

\* ------------------------------------------------------------- get_pdf_info
\* metadata.get(key, "")
MetaGet(meta, key) == IF key \in DOMAIN meta THEN meta[key] ELSE PdfStr("")

\* the metadata map of the result: filled only when pdf_reader.metadata is truthy
Metadata(doc) ==
    IF doc.hasmeta /\ DOMAIN doc.meta # {}
    THEN [title |-> MetaGet(doc.meta, "/Title"),
          author |-> MetaGet(doc.meta, "/Author"),
          subject |-> MetaGet(doc.meta, "/Subject"),
          creator |-> MetaGet(doc.meta, "/Creator"),
          producer |-> MetaGet(doc.meta, "/Producer"),
          creation_date |-> Str(MetaGet(doc.meta, "/CreationDate")),
          modification_date |-> Str(MetaGet(doc.meta, "/ModDate"))]
    ELSE [k \in {} |-> PdfStr("")]

\* ------------------------------------------------------------- list_pdfs_in_directory
\* os.scandir(top) succeeds
ScandirOk(top, del) ==
    /\ StatOutcome(top, del) = "ok"
    /\ isdir(top, del)
    /\ Node(Resolve(top)).r

\* the entries of directory top, in directory order
Children(top, del) ==
    LET In(e) == e.dir = Resolve(top) /\ FullPath(e) \notin del
    IN SelectSeq(Tree, In)

\* one round of os.walk: scandir(top) and the split of its entries into the
\* names of the non-directories and the paths of the directories; a directory
\* that cannot be enumerated gives nothing (onerror is None)
Scan(top, del) ==
    IF ~ScandirOk(top, del) THEN [files |-> <<>>, dirs |-> <<>>]
    ELSE LET IsDir(e) == e.kind = "dir"
             NonDir(e) == e.kind # "dir"
             nondirs == SelectSeq(Children(top, del), NonDir)
             subdirs == SelectSeq(Children(top, del), IsDir)
         IN [files |-> [i \in 1..Len(nondirs) |-> nondirs[i].name],
             dirs |-> [i \in 1..Len(subdirs) |-> join(top, subdirs[i].name)]]

\* the entry appended when both getsize and getmtime succeeded
EntryWithSize(root, file, dp, size, mtime) ==
    LET full_path == abspath(join(root, file)) IN
    [filename |-> file, full_path |-> full_path,
     relative_path |-> relpath(full_path, dp), directory |-> abspath(root),
     size |-> size, modified |-> mtime]

\* the entry appended when getsize or getmtime raised
EntryWithError(root, file, dp, errno) ==
    LET full_path == abspath(join(root, file))
        e == OSErrorOf(errno, full_path, "getsize")
    IN IF IsInstance(e, "PermissionError")
       THEN [filename |-> file, full_path |-> full_path,
             relative_path |-> relpath(full_path, dp), directory |-> abspath(root),
             permission_error |-> StrE(e)]
       ELSE [filename |-> file, full_path |-> full_path,
             relative_path |-> relpath(full_path, dp), directory |-> abspath(root),
             error |-> StrE(e)]

KeepPdfNames(names) == LET IsPdf(n) == IsPdfName(n) IN SelectSeq(names, IsPdf)

\* ------------------------------------------------------------- state
VARIABLES
    pc,               \* where the call in progress stands
    op,               \* the tool called
    file_path,        \* argument of read_pdf_text / get_pdf_info
    page_numbers,     \* argument of read_pdf_text
    extract_tables,   \* argument of read_pdf_text
    directory_path,   \* argument of list_pdfs_in_directory
    vres,             \* what the validation checks found
    result,           \* read_pdf_text: the result being built
    pages_to_process, \* read_pdf_text: the selected 0-based indices
    pos,              \* read_pdf_text: position of the loop in pages_to_process
    full_text_parts,  \* read_pdf_text: the texts collected so far
    info,             \* get_pdf_info: the result being built
    open_handles,     \* the file handles that are open
    opened,           \* the call in progress has opened a handle
    exc,              \* the exception that reached the call's except clauses
    ret,              \* what the finished call returned
    escaped,          \* an exception left the finished call
    deleted,          \* the files the concurrent actor has unlinked
    raced,            \* the step at which the call's target was unlinked
    tblFaults,        \* per processed page: extract_tables() raised
    walk_stack,       \* list_pdfs_in_directory: the directories os.walk has yet to scan
    root,             \* list_pdfs_in_directory: the directory os.walk yielded last
    files,            \* list_pdfs_in_directory: the .pdf names of root yet to visit
    walked,           \* list_pdfs_in_directory: every (root, file) os.walk has yielded
    file_size,        \* list_pdfs_in_directory: what os.path.getsize returned
    pdf_files         \* list_pdfs_in_directory: the entries collected so far

vars == << pc, op, file_path, page_numbers, extract_tables, directory_path, vres,
           result, pages_to_process, pos, full_text_parts, info, open_handles,
           opened, exc, ret, escaped, deleted, raced, tblFaults,
           walk_stack, root, files, walked, file_size, pdf_files >>

args == << op, file_path, page_numbers, extract_tables, directory_path >>
readLocals == << result, pages_to_process, pos, full_text_parts, tblFaults >>
listLocals == << walk_stack, root, files, walked, file_size, pdf_files >>
env == << deleted, raced >>

\* the path the call in progress was given
CalledPath == IF op = "list_pdfs_in_directory" THEN directory_path ELSE file_path

\* the paths callers pass: every path of the tree, absolute paths that do not
\* exist, relative paths that do and do not exist below the working directory,
\* paths through "." and "..", the root and paths with two leading slashes
PathInputs ==
    TreePaths \cup { <<"a", ".", "p", "d", "f">>,
                     <<"z", ".", "p", "d", "f">>,
                     <<"/", "d", "/", "n", ".", "t", "x", "t">>,
                     <<"/", "d", "/", "n", ".", "p", "d", "f">>,
                     <<"/", "d", "/", ".">>,
                     <<"/", "d", "/", ".", "/", "s">>,
                     <<"/", "d", "/", "s", "/", ".", ".">>,
                     <<"/">>,
                     <<"/", "/", "d">>,
                     <<"/", "/", "d", "/", "c", ".", "t", "x", "t">> }

Faults == {"none"} \cup LibFaults

\* what a stat call can raise besides the OSError of its outcome
StatFaults == {"none", "KeyboardInterrupt"}

Init ==
    /\ pc = "idle"
    /\ op = "none"
    /\ file_path = <<>>
    /\ page_numbers = NoPageNumbers
    /\ extract_tables = FALSE
    /\ directory_path = <<>>
    /\ vres = "pending"
    /\ result = Pending
    /\ pages_to_process = <<>>
    /\ pos = 0
    /\ full_text_parts = <<>>
    /\ info = Pending
    /\ open_handles = {}
    /\ opened = FALSE
    /\ exc = NoExc
    /\ ret = Pending
    /\ escaped = FALSE
    /\ deleted = {}
    /\ raced = "no"
    /\ tblFaults = <<>>
    /\ walk_stack = <<>>
    /\ root = <<>>
    /\ files = <<>>
    /\ walked = <<>>
    /\ file_size = 0
    /\ pdf_files = <<>>

\* a call begins
Begin(tool, fp, pn, et, dp, first) ==
    /\ pc = "idle"
    /\ pc' = first
    /\ op' = tool
    /\ file_path' = fp
    /\ page_numbers' = pn
    /\ extract_tables' = et
    /\ directory_path' = dp
    /\ UNCHANGED << vres, result, pages_to_process, pos, full_text_parts, tblFaults,
                    info, open_handles, opened, exc, ret, escaped, deleted, raced,
                    listLocals >>

\* a call ends: with a returned envelope, or with an escaped exception
Leave(out) ==
    /\ pc' = "done"
    /\ ret' = out.value
    /\ escaped' = ~out.returned

CallRead(fp, pn, et) == Begin("read_pdf_text", fp, pn, et, <<>>, "rp_validate")

\* read_pdf_text: the three checks and the initial result
RP_Validate ==
    /\ pc = "rp_validate"
    /\ LET v == ValidateRead(file_path, deleted) IN
        /\ vres' = v
        /\ IF v # "ok"
           THEN /\ Leave(Returned(FileValidationError(v, file_path)))
                /\ UNCHANGED result
           ELSE /\ result' = [success |-> TRUE, file_path |-> file_path, pages |-> <<>>,
                              total_pages |-> 0, full_text |-> ""]
                /\ pc' = "rp_open"
                /\ UNCHANGED << ret, escaped >>
    /\ UNCHANGED << args, listLocals, pages_to_process, pos, full_text_parts, tblFaults, info,
                    open_handles, opened, exc, env >>

\* read_pdf_text: an exception reaches the except clauses; the with block, if
\* entered, is left first
RP_Raise(e, inWith) ==
    /\ exc' = e
    /\ open_handles' = IF inWith THEN WithExit(open_handles, file_path) ELSE open_handles
    /\ Leave(ReadHandler(e, file_path))

\* read_pdf_text: pdfplumber.open(file_path)
RP_Open ==
    /\ pc = "rp_open"
    /\ \E f \in Faults :
        LET o == OpenOutcome(file_path, deleted) IN
        IF o # "ok"
        THEN /\ RP_Raise(OSErrorOf(o, file_path, "open"), FALSE)
             /\ UNCHANGED opened
        ELSE IF ~Node(Resolve(file_path)).doc.pdf
        THEN /\ RP_Raise(LibExc("PDFSyntaxError", "open"), FALSE)
             /\ UNCHANGED opened
        ELSE IF f # "none"
        THEN /\ RP_Raise(LibExc(f, "open"), FALSE)
             /\ UNCHANGED opened
        ELSE /\ open_handles' = open_handles \cup {file_path}
             /\ opened' = TRUE
             /\ pc' = "rp_select"
             /\ UNCHANGED << exc, ret, escaped >>
    /\ UNCHANGED << args, listLocals, vres, readLocals, info, env >>

\* read_pdf_text: total_pages and pages_to_process
RP_Select ==
    /\ pc = "rp_select"
    /\ \E f \in Faults :
        IF f # "none"
        THEN /\ RP_Raise(LibExc(f, "pages"), TRUE)
             /\ UNCHANGED << result, pages_to_process, pos >>
        ELSE LET n == Len(Node(Resolve(file_path)).doc.pages) IN
             /\ result' = [result EXCEPT !.total_pages = n]
             /\ pages_to_process' = PagesToProcess(page_numbers, n)
             /\ pos' = 1
             /\ pc' = "rp_page"
             /\ UNCHANGED << open_handles, exc, ret, escaped >>
    /\ UNCHANGED << args, listLocals, vres, full_text_parts, tblFaults, info, opened, env >>

\* read_pdf_text: one round of the loop over pages_to_process
RP_Page ==
    /\ pc = "rp_page"
    /\ pos <= Len(pages_to_process)
    /\ \E tf \in Faults, tb \in Faults :
        LET pages == Node(Resolve(file_path)).doc.pages
            page_idx == pages_to_process[pos]
        IN
        IF ~InRange(pages, page_idx)
        THEN /\ RP_Raise(Exc("IndexError", "list index out of range", <<>>, "pages"), TRUE)
             /\ UNCHANGED << result, pos, full_text_parts, tblFaults >>
        ELSE IF tf # "none"
        THEN /\ RP_Raise(LibExc(tf, "extract_text"), TRUE)
             /\ UNCHANGED << result, pos, full_text_parts, tblFaults >>
        ELSE LET page == PyIndex(pages, page_idx)
                 page_text == TextOrEmpty(page.text)
                 page_info == [page_number |-> page_idx + 1, text |-> page_text]
                 step == IF extract_tables
                         THEN TablesStep(page_info, page, tb)
                         ELSE [raised |-> FALSE, e |-> NoExc, page_info |-> page_info]
             IN
             /\ tblFaults' = Append(tblFaults, extract_tables /\ tb # "none")
             /\ IF step.raised
                THEN /\ RP_Raise(step.e, TRUE)
                     /\ UNCHANGED << result, pos, full_text_parts >>
                ELSE /\ result' = [result EXCEPT !.pages = Append(@, step.page_info)]
                     /\ full_text_parts' = Append(full_text_parts, page_text)
                     /\ pos' = pos + 1
                     /\ UNCHANGED << pc, open_handles, exc, ret, escaped >>
    /\ UNCHANGED << args, listLocals, vres, pages_to_process, info, opened, env >>

\* read_pdf_text: the join, the end of the with block and the return
RP_Finish ==
    /\ pc = "rp_page"
    /\ pos > Len(pages_to_process)
    /\ result' = [result EXCEPT !.full_text = Join(full_text_parts)]
    /\ open_handles' = WithExit(open_handles, file_path)
    /\ Leave(Returned(result'))
    /\ UNCHANGED << args, listLocals, vres, pages_to_process, pos, full_text_parts, tblFaults, info,
                    opened, exc, env >>

CallInfo(fp) == Begin("get_pdf_info", fp, NoPageNumbers, FALSE, <<>>, "gi_validate")

\* get_pdf_info: the two checks
GI_Validate ==
    /\ pc = "gi_validate"
    /\ LET v == ValidateInfo(file_path, deleted) IN
        /\ vres' = v
        /\ IF v # "ok"
           THEN Leave(Returned(FileValidationError(v, file_path)))
           ELSE /\ pc' = "gi_open"
                /\ UNCHANGED << ret, escaped >>
    /\ UNCHANGED << args, listLocals, readLocals, info, open_handles, opened, exc, env >>

\* get_pdf_info: an exception reaches the except clauses; the with block, if
\* entered, is left first
GI_Raise(e, inWith) ==
    /\ exc' = e
    /\ open_handles' = IF inWith THEN WithExit(open_handles, file_path) ELSE open_handles
    /\ Leave(InfoHandler(e, file_path))

\* get_pdf_info: open(file_path, 'rb')
GI_Open ==
    /\ pc = "gi_open"
    /\ LET o == OpenOutcome(file_path, deleted) IN
        IF o # "ok"
        THEN /\ GI_Raise(OSErrorOf(o, file_path, "open"), FALSE)
             /\ UNCHANGED opened
        ELSE /\ open_handles' = open_handles \cup {file_path}
             /\ opened' = TRUE
             /\ pc' = "gi_parse"
             /\ UNCHANGED << exc, ret, escaped >>
    /\ UNCHANGED << args, listLocals, vres, readLocals, info, env >>

\* get_pdf_info: PdfReader(file), the page count and the metadata
GI_Parse ==
    /\ pc = "gi_parse"
    /\ \E f \in Faults :
        LET doc == Node(Resolve(file_path)).doc IN
        IF ~doc.pdf
        THEN /\ GI_Raise(LibExc("PdfReadError", "PdfReader"), TRUE)
             /\ UNCHANGED info
        ELSE IF f # "none"
        THEN /\ GI_Raise(LibExc(f, "PdfReader"), TRUE)
             /\ UNCHANGED info
        ELSE /\ info' = [success |-> TRUE, file_path |-> file_path,
                         page_count |-> Len(doc.pages), metadata |-> Metadata(doc)]
             /\ pc' = "gi_size"
             /\ UNCHANGED << open_handles, exc, ret, escaped >>
    /\ UNCHANGED << args, listLocals, vres, readLocals, opened, env >>

\* get_pdf_info: os.path.getsize(file_path), the return and the end of the with block
GI_Size ==
    /\ pc = "gi_size"
    /\ LET st == StatOutcome(file_path, deleted) IN
        IF st # "ok"
        THEN /\ GI_Raise(OSErrorOf(st, file_path, "getsize"), TRUE)
             /\ UNCHANGED info
        ELSE /\ info' = [success |-> TRUE, file_path |-> info.file_path,
                         page_count |-> info.page_count, metadata |-> info.metadata,
                         file_size |-> getsize(file_path)]
             /\ open_handles' = WithExit(open_handles, file_path)
             /\ Leave(Returned(info'))
             /\ UNCHANGED exc
    /\ UNCHANGED << args, listLocals, vres, readLocals, opened, env >>

CallList(dp) == Begin("list_pdfs_in_directory", <<>>, NoPageNumbers, FALSE, dp, "ld_exists")

\* list_pdfs_in_directory: the absolute-path check and os.path.exists
LD_Exists ==
    /\ pc = "ld_exists"
    /\ LET v == ValidateListExists(directory_path, deleted) IN
        IF v # "ok"
        THEN /\ vres' = v
             /\ Leave(Returned(DirValidationError(v, directory_path)))
        ELSE /\ pc' = "ld_isdir"
             /\ UNCHANGED << vres, ret, escaped >>
    /\ UNCHANGED << args, readLocals, listLocals, info, open_handles, opened, exc, env >>

\* list_pdfs_in_directory: os.path.isdir, and the start of the walk
LD_IsDir ==
    /\ pc = "ld_isdir"
    /\ LET v == ValidateListIsDir(directory_path, deleted) IN
        /\ vres' = v
        /\ IF v # "ok"
           THEN /\ Leave(Returned(DirValidationError(v, directory_path)))
                /\ UNCHANGED walk_stack
           ELSE /\ pc' = "ld_walk"
                /\ walk_stack' = << directory_path >>
                /\ UNCHANGED << ret, escaped >>
    /\ UNCHANGED << args, readLocals, root, files, walked, file_size, pdf_files, info,
                    open_handles, opened, exc, env >>

\* list_pdfs_in_directory: os.walk scans its next directory; f is an exception
\* that os.walk does not swallow
LD_Scan ==
    /\ pc = "ld_walk"
    /\ files = <<>>
    /\ walk_stack # <<>>
    /\ \E f \in Faults :
        IF f # "none"
        THEN /\ exc' = LibExc(f, "walk")
             /\ Leave(ListHandler(exc', directory_path))
             /\ UNCHANGED << walk_stack, root, files, walked >>
        ELSE LET top == Head(walk_stack)
                 scan == Scan(top, deleted)
             IN /\ root' = top
                /\ files' = KeepPdfNames(scan.files)
                /\ walked' = walked \o [i \in 1..Len(scan.files) |->
                                            [root |-> top, file |-> scan.files[i]]]
                /\ walk_stack' = scan.dirs \o Tail(walk_stack)
                /\ UNCHANGED << pc, exc, ret, escaped >>
    /\ UNCHANGED << args, vres, readLocals, file_size, pdf_files, info, open_handles,
                    opened, env >>

\* list_pdfs_in_directory: os.path.getsize of the next .pdf file; f is an
\* exception the inner except clauses do not catch
LD_Size ==
    /\ pc = "ld_walk"
    /\ files # <<>>
    /\ \E f \in StatFaults :
        LET full_path == abspath(join(root, Head(files)))
            st == StatOutcome(full_path, deleted)
        IN IF f # "none"
           THEN /\ exc' = LibExc(f, "getsize")
                /\ Leave(ListHandler(exc', directory_path))
                /\ UNCHANGED << files, pdf_files, file_size >>
           ELSE IF st = "ok"
           THEN /\ file_size' = getsize(full_path)
                /\ pc' = "ld_mtime"
                /\ UNCHANGED << files, pdf_files, exc, ret, escaped >>
           ELSE /\ pdf_files' = Append(pdf_files,
                                       EntryWithError(root, Head(files), directory_path, st))
                /\ files' = Tail(files)
                /\ UNCHANGED << pc, file_size, exc, ret, escaped >>
    /\ UNCHANGED << args, vres, readLocals, walk_stack, root, walked, info, open_handles,
                    opened, env >>

\* list_pdfs_in_directory: os.path.getmtime of the file, and the append
LD_Mtime ==
    /\ pc = "ld_mtime"
    /\ \E f \in StatFaults :
        LET full_path == abspath(join(root, Head(files)))
            st == StatOutcome(full_path, deleted)
        IN IF f # "none"
           THEN /\ exc' = LibExc(f, "getmtime")
                /\ Leave(ListHandler(exc', directory_path))
                /\ UNCHANGED << files, pdf_files >>
           ELSE /\ pdf_files' = Append(pdf_files,
                    IF st = "ok"
                    THEN EntryWithSize(root, Head(files), directory_path, file_size,
                                       getmtime(full_path))
                    ELSE EntryWithError(root, Head(files), directory_path, st))
                /\ files' = Tail(files)
                /\ pc' = "ld_walk"
                /\ UNCHANGED << exc, ret, escaped >>
    /\ UNCHANGED << args, vres, readLocals, walk_stack, root, walked, file_size, info,
                    open_handles, opened, env >>

\* list_pdfs_in_directory: the walk is over; the return
LD_Return ==
    /\ pc = "ld_walk"
    /\ files = <<>>
    /\ walk_stack = <<>>
    /\ Leave(Returned([success |-> TRUE, search_directory |-> directory_path,
                       pdf_count |-> Len(pdf_files), pdf_files |-> pdf_files]))
    /\ UNCHANGED << args, vres, readLocals, listLocals, info, open_handles, opened, exc,
                    env >>

\* the envelope has gone to the caller: nothing of the call is kept
Respond ==
    /\ pc = "done"
    /\ pc' = "idle"
    /\ op' = "none"
    /\ file_path' = <<>>
    /\ page_numbers' = NoPageNumbers
    /\ extract_tables' = FALSE
    /\ directory_path' = <<>>
    /\ vres' = "pending"
    /\ result' = Pending
    /\ pages_to_process' = <<>>
    /\ pos' = 0
    /\ full_text_parts' = <<>>
    /\ info' = Pending
    /\ opened' = FALSE
    /\ exc' = NoExc
    /\ ret' = Pending
    /\ escaped' = FALSE
    /\ raced' = "no"
    /\ tblFaults' = <<>>
    /\ walk_stack' = <<>>
    /\ root' = <<>>
    /\ files' = <<>>
    /\ walked' = <<>>
    /\ file_size' = 0
    /\ pdf_files' = <<>>
    /\ UNCHANGED << open_handles, deleted >>

\* the concurrent actor unlinks a file (an unlink after the return and before
\* the response is the same as one after the response)
Unlink(p) ==
    /\ pc # "done"
    /\ p \in TreeFiles \ deleted
    /\ Cardinality(deleted) < MaxUnlinks
    /\ deleted' = deleted \cup {p}
    /\ raced' = IF pc \in {"rp_open", "gi_open", "gi_parse", "gi_size", "ld_isdir"}
                   /\ Resolve(CalledPath) = p
                THEN pc ELSE raced
    /\ UNCHANGED << pc, args, listLocals, vres, readLocals, info, open_handles, opened, exc, ret,
                    escaped >>

Next ==
    \/ \E fp \in PathInputs, pn \in PageNumbersInputs, et \in BOOLEAN : CallRead(fp, pn, et)
    \/ RP_Validate
    \/ RP_Open
    \/ RP_Select
    \/ RP_Page
    \/ RP_Finish
    \/ \E fp \in PathInputs : CallInfo(fp)
    \/ GI_Validate
    \/ GI_Open
    \/ GI_Parse
    \/ GI_Size
    \/ \E dp \in PathInputs : CallList(dp)
    \/ LD_Exists
    \/ LD_IsDir
    \/ LD_Scan
    \/ LD_Size
    \/ LD_Mtime
    \/ LD_Return
    \/ Respond
    \/ \E p \in TreeFiles : Unlink(p)

Spec == Init /\ [][Next]_vars

\* ------------------------------------------------------------- properties
Done == pc = "done"

IsFailure(r) == DOMAIN r = {"success", "error"} /\ r.success = FALSE

\* an exception outside the Exception hierarchy reached the except clauses
Interrupted == exc # NoExc /\ ~IsInstance(exc, "Exception")

EnvelopeOk ==
    /\ ~escaped
    /\ "success" \in DOMAIN ret
    /\ ret.success \in BOOLEAN
    /\ (~ret.success => DOMAIN ret = {"success", "error"})
    /\ (ret.success => "error" \notin DOMAIN ret)

\* C1 as stated: every finished call, whatever exception was raised in it, has
\* returned an envelope and let no exception escape; a failure envelope holds
\* success and error only, and a success envelope holds no error.
C1_EnvelopeAlways == Done => EnvelopeOk

\* C1, amended: every finished call in which nothing was raised, or an
\* exception derived from Exception was raised, has returned an envelope and
\* let no exception escape; a failure envelope holds success and error only,
\* and a success envelope holds no error.  An exception derived from
\* BaseException only (KeyboardInterrupt, SystemExit, GeneratorExit) leaves
\* the call.
C1_EnvelopeUnlessInterrupted ==
    Done => IF Interrupted THEN escaped ELSE EnvelopeOk

\* a library exception other than a permission error was raised inside
\* read_pdf_text and came back as a failure envelope
C1_Witness ==
    /\ Done
    /\ op = "read_pdf_text"
    /\ exc.type = "PDFSyntaxError"
    /\ exc.origin = "extract_text"
    /\ IsFailure(ret)

\* the page numbers the caller asked for that lie inside the document
KeptNumbers(list, n) ==
    LET InDocument(p) == 0 < p /\ p <= n IN SelectSeq(list, InDocument)

PageCountOf(path) == Len(Node(Resolve(path)).doc.pages)

\* C2: a read_pdf_text call that passed validation and met no exception
\* returns success, and the page_number values of its pages are the requested
\* numbers p with 0 < p <= N in the caller's order, or 1..N when page_numbers
\* is absent.
C2_PageSelection ==
    (Done /\ op = "read_pdf_text" /\ vres = "ok" /\ exc = NoExc) =>
        /\ ret.success = TRUE
        /\ ret.total_pages = PageCountOf(file_path)
        /\ LET n == ret.total_pages
               numbers == [i \in 1..Len(ret.pages) |-> ret.pages[i].page_number]
           IN IF page_numbers.given
              THEN numbers = KeptNumbers(page_numbers.list, n)
              ELSE numbers = [i \in 1..n |-> i]

\* page_numbers = [2, 1] on the two-page document came back as pages 2, 1
C2_Witness ==
    /\ Done
    /\ op = "read_pdf_text"
    /\ ~escaped
    /\ page_numbers.given
    /\ page_numbers.list = <<2, 1>>
    /\ ret.success = TRUE
    /\ ret.total_pages = 2
    /\ Len(ret.pages) = 2
    /\ ret.pages[1].page_number = 2
    /\ ret.pages[2].page_number = 1

MetaKeys == {"title", "author", "subject", "creator", "producer",
             "creation_date", "modification_date"}

\* the key of the document's info dictionary behind a key of the result
InfoKey(k) ==
    CASE k = "title" -> "/Title"
      [] k = "author" -> "/Author"
      [] k = "subject" -> "/Subject"
      [] k = "creator" -> "/Creator"
      [] k = "producer" -> "/Producer"
      [] k = "creation_date" -> "/CreationDate"
      [] OTHER -> "/ModDate"

\* C3: every successful get_pdf_info result has all seven metadata keys, and a
\* key the document does not have maps to the empty string.
C3_MetadataKeysPresent ==
    (Done /\ op = "get_pdf_info" /\ "success" \in DOMAIN ret /\ ret.success = TRUE) =>
        LET doc == Node(Resolve(file_path)).doc IN
        \A k \in MetaKeys :
            /\ k \in DOMAIN ret.metadata
            /\ (~doc.hasmeta \/ InfoKey(k) \notin DOMAIN doc.meta)
                    => ret.metadata[k] = PdfStr("")

NotAbsoluteError ==
    IF op = "list_pdfs_in_directory"
    THEN Fail([fmt |-> "Directory path must be absolute path, got: {directory_path}",
               directory_path |-> directory_path])
    ELSE Fail([fmt |-> "File path must be absolute path, got: {file_path}",
               file_path |-> file_path])

NotFoundError ==
    IF op = "list_pdfs_in_directory"
    THEN Fail([fmt |-> "Directory not found: {directory_path}",
               directory_path |-> directory_path])
    ELSE Fail([fmt |-> "File not found: {file_path}", file_path |-> file_path])

NotAPdfError == Fail([fmt |-> "File must be a PDF"])

NotADirectoryError ==
    Fail([fmt |-> "Path is not a directory: {directory_path}",
          directory_path |-> directory_path])

\* the name ends in .pdf, in any mix of cases
EndsInPdfAnyCase(name) ==
    /\ Len(name) >= 4
    /\ name[Len(name) - 3] = "."
    /\ name[Len(name) - 2] \in {"p", "P"}
    /\ name[Len(name) - 1] \in {"d", "D"}
    /\ name[Len(name)] \in {"f", "F"}

\* the step of a call that makes the absolute-path and the existence check
\* (and, in read_pdf_text, the suffix check): the first check that fails gives
\* the error, and the call goes on only when none fails
FirstChecks ==
    (pc \in {"rp_validate", "gi_validate", "ld_exists"} /\ pc' # pc) =>
        /\ ~isabs(CalledPath) => (pc' = "done" /\ ret' = NotAbsoluteError)
        /\ (isabs(CalledPath) /\ ~exists(CalledPath, deleted))
                => (pc' = "done" /\ ret' = NotFoundError)
        /\ (isabs(CalledPath) /\ exists(CalledPath, deleted)
                /\ op = "read_pdf_text" /\ ~EndsInPdfAnyCase(file_path))
                => (pc' = "done" /\ ret' = NotAPdfError)
        /\ (isabs(CalledPath) /\ exists(CalledPath, deleted)
                /\ (op = "read_pdf_text" => EndsInPdfAnyCase(file_path)))
                => pc' # "done"

\* the step of list_pdfs_in_directory that makes the directory check, which
\* comes only after the first two checks have passed
DirectoryCheck ==
    (pc = "ld_isdir" /\ pc' # pc) =>
        /\ isabs(directory_path)
        /\ ~isdir(directory_path, deleted)
                => (pc' = "done" /\ ret' = NotADirectoryError)
        /\ isdir(directory_path, deleted) => pc' # "done"

\* the not-a-PDF and the not-a-directory error come from these steps only
ThirdCheckOnly ==
    (pc # "done" /\ pc' = "done") =>
        /\ ret' = NotAPdfError
                => /\ pc = "rp_validate"
                   /\ isabs(file_path)
                   /\ exists(file_path, deleted)
        /\ ret' = NotADirectoryError => pc = "ld_isdir"

\* C4: in every call the checks run in the order absolute, exists, then .pdf
\* suffix (read_pdf_text) or is-a-directory (list_pdfs_in_directory), and the
\* first that fails gives the error: a relative path gets the not-absolute
\* error from each tool whether or not it exists; an absolute path that does
\* not exist when the check runs gets the not-found error whatever its
\* suffix; an absolute path that exists gets the not-a-PDF error when its
\* suffix is not .pdf and the not-a-directory error when it is no directory;
\* these two errors come only for absolute paths that passed the existence
\* check.
C4_ValidationOrder == [][FirstChecks /\ DirectoryCheck /\ ThirdCheckOnly]_vars

\* read_pdf_text on the relative path a.pdf, which exists below the working
\* directory, came back with the not-absolute error
C4_Witness ==
    /\ Done
    /\ op = "read_pdf_text"
    /\ file_path = <<"a", ".", "p", "d", "f">>
    /\ exists(file_path, deleted)
    /\ ret = NotAbsoluteError

\* what C5 says of a read_pdf_text result
TablesRecorded ==
    /\ ~escaped
    /\ ret.success = TRUE
    /\ Len(ret.pages) = Len(pages_to_process)
    /\ Len(tblFaults) = Len(pages_to_process)
    /\ \A i \in 1..Len(ret.pages) :
        LET pg == ret.pages[i]
            src == PyIndex(Node(Resolve(file_path)).doc.pages, pages_to_process[i])
        IN /\ pg.text = (IF src.text = <<>> THEN "" ELSE src.text[1])
           /\ IF ~extract_tables
              THEN DOMAIN pg = {"page_number", "text"}
              ELSE IF tblFaults[i]
              THEN /\ DOMAIN pg = {"page_number", "text", "tables",
                                   "table_extraction_error"}
                   /\ pg.tables = <<>>
              ELSE /\ DOMAIN pg = {"page_number", "text", "tables"}
                   /\ pg.tables = src.tables

\* C5: when nothing but table extraction fails, read_pdf_text returns success
\* with one page per selected page; a page whose table extraction failed has
\* its text, an empty tables list and table_extraction_error; a page whose
\* table extraction succeeded has tables and no table_extraction_error; with
\* extract_tables false no page has either field (no interrupt being
\* delivered to the call).
C5_TableFailureNotFatal ==
    (Done /\ op = "read_pdf_text" /\ vres = "ok"
          /\ (exc = NoExc \/ (exc.origin = "extract_tables" /\ ~Interrupted)))
        => TablesRecorded

\* table extraction failed on the first of two pages and the second page was
\* still processed
C5_Witness ==
    /\ Done
    /\ op = "read_pdf_text"
    /\ ~escaped
    /\ extract_tables
    /\ tblFaults = <<TRUE, FALSE>>
    /\ ret.success = TRUE
    /\ Len(ret.pages) = 2
    /\ "table_extraction_error" \in DOMAIN ret.pages[1]
    /\ "table_extraction_error" \notin DOMAIN ret.pages[2]

\* directory d is dp or lies below it
Below(d, dp) == d = dp \/ startswith(d, join(dp, <<>>))

\* the .pdf files of the tree below directory dp
PdfFilesBelow(dp, del) ==
    { FullPath(Tree[i]) :
        i \in { j \in 1..Len(Tree) :
                    /\ Tree[j].kind # "dir"
                    /\ EndsInPdfAnyCase(Tree[j].name)
                    /\ FullPath(Tree[j]) \notin del
                    /\ Below(Tree[j].dir, dp) } }

EntryBase == {"filename", "full_path", "relative_path", "directory"}

\* C6: list_pdfs_in_directory on a valid directory returns one entry for
\* every file below the directory whose name ends in .pdf in any case (every
\* such file that is there at the return, and none that the tree never had),
\* each file once and in the order of the walk, and none for another file;
\* pdf_count is the length of pdf_files; each entry has exactly one of size
\* with modified, permission_error, and error: permission_error when the stat
\* is denied, size and modified only for a file that can be stat-ed and always
\* for one that still can at the return; relative_path leads from
\* directory_path down to full_path.
C6_ListingComplete ==
    (Done /\ op = "list_pdfs_in_directory" /\ vres = "ok" /\ exc = NoExc) =>
        LET IsPdf(w) == EndsInPdfAnyCase(w.file)
            expected == SelectSeq(walked, IsPdf)
            listed == { Resolve(ret.pdf_files[i].full_path) :
                            i \in 1..Len(ret.pdf_files) }
            top == Resolve(directory_path)
        IN
        /\ ret.success = TRUE
        /\ ret.pdf_count = Len(ret.pdf_files)
        /\ Len(ret.pdf_files) = Len(expected)
        /\ PdfFilesBelow(top, deleted) \subseteq listed
        /\ listed \subseteq PdfFilesBelow(top, {})
        /\ Cardinality(listed) = Len(ret.pdf_files)
        /\ \A i \in 1..Len(ret.pdf_files) :
            LET entry == ret.pdf_files[i] IN
            /\ DOMAIN entry \in { EntryBase \cup {"size", "modified"},
                                  EntryBase \cup {"permission_error"},
                                  EntryBase \cup {"error"} }
            /\ entry.filename = expected[i].file
            /\ Resolve(entry.directory) = Resolve(expected[i].root)
            /\ Resolve(entry.full_path) = join(Resolve(entry.directory), entry.filename)
            /\ Resolve(join(directory_path, entry.relative_path)) = Resolve(entry.full_path)
            /\ ~startswith(entry.relative_path, <<".", ".">>)
            /\ StatOutcome(entry.full_path, {}) = "EACCES"
                    <=> "permission_error" \in DOMAIN entry
            /\ "size" \in DOMAIN entry => StatOutcome(entry.full_path, {}) = "ok"
            /\ StatOutcome(entry.full_path, deleted) = "ok" => "size" \in DOMAIN entry

\* C7: no handle is open once a call has returned, on the success path and on
\* every failure path, and a call that failed validation never opened one.
C7_HandlesReleased ==
    /\ pc \in {"idle", "done"} => open_handles = {}
    /\ (Done /\ vres # "ok") => ~opened

\* get_pdf_info failed at the file-size stat, after the open, and its handle
\* is closed
C7_Witness ==
    /\ Done
    /\ op = "get_pdf_info"
    /\ opened
    /\ exc.origin = "getsize"
    /\ open_handles = {}

\* C8: a call whose target was unlinked after the existence check, before the
\* open or between the open and the file-size stat, returns a failure envelope
\* with an error only (no interrupt being delivered to the call).
C8_DeletedAfterCheck ==
    (Done /\ op \in {"read_pdf_text", "get_pdf_info"} /\ raced # "no" /\ ~Interrupted) =>
        /\ ~escaped
        /\ IsFailure(ret)
        /\ "fmt" \in DOMAIN ret.error

\* the target of get_pdf_info was unlinked between the open and the file-size
\* stat
C8_Witness ==
    /\ Done
    /\ op = "get_pdf_info"
    /\ raced = "gi_size"
    /\ exc.type = "FileNotFoundError"
    /\ IsFailure(ret)

RECURSIVE TextsJoined(_, _)
\* the texts of the first k pages, each after the first preceded by a blank line
TextsJoined(pages, k) ==
    IF k = 0 THEN ""
    ELSE IF k = 1 THEN pages[1].text
    ELSE TextsJoined(pages, k - 1) \o "\n\n" \o pages[k].text

\* C9: full_text of a successful read_pdf_text result is the texts of its
\* pages, in the order of the pages list, with a double newline between them;
\* a page without text gives the empty string and no pages give the empty
\* full_text.
C9_FullTextIsJoin ==
    (Done /\ op = "read_pdf_text" /\ "success" \in DOMAIN ret /\ ret.success = TRUE) =>
        /\ ret.full_text = TextsJoined(ret.pages, Len(ret.pages))
        /\ ret.pages = <<>> => ret.full_text = ""
        /\ \A i \in 1..Len(ret.pages) :
            LET src == Node(Resolve(file_path)).doc.pages[ret.pages[i].page_number]
            IN src.text = <<>> => ret.pages[i].text = ""

\* page 1 was asked for twice and full_text holds its text twice
C9_Witness ==
    /\ Done
    /\ op = "read_pdf_text"
    /\ ~escaped
    /\ ret.success = TRUE
    /\ page_numbers.list = <<1, 1>>
    /\ ret.full_text = "Alpha\n\nAlpha"

\* the target of the call exists and may not be read
TargetDenied ==
    /\ vres = "ok"
    /\ ~Node(Resolve(CalledPath)).r

\* C10: when access to the target is denied, the call returns a failure whose
\* message is the permission message of the tool, with the caller's path and
\* the system's message in it.
C10_PermissionDeniedReported ==
    (Done /\ TargetDenied /\ (exc = NoExc \/ exc.origin = "open")) =>
        /\ IsFailure(ret)
        /\ "e" \in DOMAIN ret.error
        /\ IF op = "list_pdfs_in_directory"
           THEN /\ ret.error.fmt = "Permission denied accessing directory: {directory_path}. Error: {e}"
                /\ ret.error.directory_path = directory_path
           ELSE /\ ret.error.fmt = "Permission denied accessing file: {file_path}. Error: {e}"
                /\ ret.error.file_path = file_path

====
